---- MODULE Spec2Model ----
(***************************************************************************)
(* The car catalog of content_cars.go: a directory tree on disk            *)
(* (content/cars/<name>/{skins,ui/ui_car.json}) and a bleve search index   *)
(* keyed by car name, kept in step by CarManager.                          *)
(*                                                                         *)
(* One action models one whole call of a CarManager method or handler.     *)
(* I/O failures are inputs of the actions (the parameter f names the call  *)
(* that fails).  Errors are the values "nil", "ErrNotExist", "ErrIO",      *)
(* "ErrParse", "ErrIndex", "ErrCancelled".  The variable last records the  *)
(* most recent call and what it returned.                                  *)
(*                                                                         *)
(* Not modelled: the skin names (only whether the skins directory can be   *)
(* read), the fields of CarDetails no method of this file reads or writes  *)
(* (they travel with the document unchanged), DownloadURL (set together    *)
(* with Notes, from the same form), and non-empty search terms' ranking.   *)
(***************************************************************************)
EXTENDS Integers, Sequences, FiniteSets, TLC

\* The car names (identities) of the model, in directory order.
CarNames == {1, 2}

\* The tags and operator notes the calls draw their inputs from.
TagNames == {"a", "b"}
NoteTexts == {"", "n"}

VARIABLES
  fs,        \* fs[n]: the subtree content/cars/n on disk
  idxOnDisk, \* whether an index exists at search-index/cars
  carIndex,  \* cm.carIndex: "nil" or "open"
  docs,      \* docs[n]: the index document under n, or NoDoc
  last,      \* the most recent call of a CarManager method and its result
  view,      \* what CarsHandler.list last rendered, over an index of view.T hits
  running,   \* running[c]: the call caller c has in flight and how far it got
  order      \* the steps the calls in flight have taken, in the order taken

vars == <<fs, idxOnDisk, carIndex, docs, last, view, running, order>>

\* No index document under a name; an index document d is <<d>>.
NoDoc == << >>

----------------------------------------------------------------------------
\* CarDetails and its methods

Digits == {"0", "1", "2", "3", "4", "5", "6", "7", "8", "9"}

DigitValue(c) ==
  CASE c = "0" -> 0 [] c = "1" -> 1 [] c = "2" -> 2 [] c = "3" -> 3
    [] c = "4" -> 4 [] c = "5" -> 5 [] c = "6" -> 6 [] c = "7" -> 7
    [] c = "8" -> 8 [] c = "9" -> 9

\* keepNumericRegex.FindString: the leftmost match of [0-9]+, "" when none.
RECURSIVE DigitRunFrom(_, _)
DigitRunFrom(str, i) ==
  IF i > Len(str) \/ str[i] \notin Digits THEN << >>
  ELSE <<str[i]>> \o DigitRunFrom(str, i + 1)

\* FindString as it would be if it kept every digit of the string.
RECURSIVE KeepDigits(_, _)
KeepDigits(str, i) ==
  IF i > Len(str) THEN << >>
  ELSE IF str[i] \in Digits THEN <<str[i]>> \o KeepDigits(str, i + 1)
  ELSE KeepDigits(str, i + 1)

RECURSIVE FindDigits(_, _)
FindDigits(str, i) ==
  IF i > Len(str) THEN << >>
  ELSE IF str[i] \in Digits THEN DigitRunFrom(str, i)
  ELSE FindDigits(str, i + 1)

\* formValueAsInt: the decimal value of the string, 0 when it is empty.
RECURSIVE formValueAsInt(_)
formValueAsInt(str) ==
  IF str = << >> THEN 0
  ELSE 10 * formValueAsInt(SubSeq(str, 1, Len(str) - 1)) + DigitValue(str[Len(str)])

toNumber(str) == formValueAsInt(FindDigits(str, 1))

\* CarSpecs{} and CarSpecsNumeric{}: the zero values.
ZeroSpecs ==
  [Acceleration |-> << >>, BHP |-> << >>, PWRatio |-> << >>, TopSpeed |-> << >>,
   Torque |-> << >>, Weight |-> << >>]

ZeroNumeric ==
  [Acceleration |-> 0, BHP |-> 0, PWRatio |-> 0, TopSpeed |-> 0, Torque |-> 0,
   Weight |-> 0]

\* Numeric as it would be with the power and torque fields exchanged.
NumericCrossed(cs) ==
  [Acceleration |-> toNumber(cs.Acceleration), BHP |-> toNumber(cs.Torque),
   PWRatio |-> toNumber(cs.PWRatio), TopSpeed |-> toNumber(cs.TopSpeed),
   Torque |-> toNumber(cs.BHP), Weight |-> toNumber(cs.Weight)]

\* CarSpecs.Numeric
Numeric(cs) ==
  [Acceleration |-> toNumber(cs.Acceleration), BHP |-> toNumber(cs.BHP),
   PWRatio |-> toNumber(cs.PWRatio), TopSpeed |-> toNumber(cs.TopSpeed),
   Torque |-> toNumber(cs.Torque), Weight |-> toNumber(cs.Weight)]

\* prettifyName(name, true): the display name of a directory name.
prettifyName(name) == <<"pretty", name>>

\* CarDetails{}: the zero value.
ZeroDetails ==
  [Name |-> << >>, Tags |-> << >>, Notes |-> "", SpecsFull |-> ZeroSpecs,
   Specs |-> ZeroNumeric]

\* AddTag as it would be if it replaced the tags by the new one.
DetailsAddTagReplace(cd, name) == [cd EXCEPT !.Tags = <<name>>]

\* AddTag as it would be without the check for an existing tag.
DetailsAddTagAlways(cd, name) == [cd EXCEPT !.Tags = Append(cd.Tags, name)]

\* CarDetails.AddTag
DetailsAddTag(cd, name) ==
  IF \E i \in 1..Len(cd.Tags) : cd.Tags[i] = name THEN cd
  ELSE [cd EXCEPT !.Tags = Append(cd.Tags, name)]

\* DelTag as it would be without the early return: deleteIndex -1 then drops
\* the last tag.
DetailsDelTagLast(cd, name) ==
  LET matches == {i \in 1..Len(cd.Tags) : cd.Tags[i] = name}
  IN IF matches = {} THEN [cd EXCEPT !.Tags = SubSeq(cd.Tags, 1, Len(cd.Tags) - 1)]
     ELSE LET deleteIndex == CHOOSE i \in matches : \A j \in matches : j <= i
          IN [cd EXCEPT !.Tags = SubSeq(cd.Tags, 1, deleteIndex - 1)
                                  \o SubSeq(cd.Tags, deleteIndex + 1, Len(cd.Tags))]

\* CarDetails.DelTag: the last matching position is the one deleted.
DetailsDelTag(cd, name) ==
  LET matches == {i \in 1..Len(cd.Tags) : cd.Tags[i] = name}
  IN IF matches = {} THEN cd
     ELSE LET deleteIndex == CHOOSE i \in matches : \A j \in matches : j <= i
          IN [cd EXCEPT !.Tags = SubSeq(cd.Tags, 1, deleteIndex - 1)
                                  \o SubSeq(cd.Tags, deleteIndex + 1, Len(cd.Tags))]

----------------------------------------------------------------------------
\* The filesystem under content/cars

\* ui/ui_car.json: missing, present but not decodable, just created and still
\* empty, or an encoded document.
NoFile == [kind |-> "none", doc |-> ZeroDetails]
BadFile == [kind |-> "bad", doc |-> ZeroDetails]
EmptyFile == [kind |-> "empty", doc |-> ZeroDetails]
File(cd) == [kind |-> "doc", doc |-> cd]

\* A name with no entry under content/cars.
Absent == [dir |-> FALSE, skins |-> FALSE, ui |-> NoFile, file |-> FALSE]

\* A name whose entry under content/cars is a regular file, not a directory.
PlainFile == [dir |-> FALSE, skins |-> FALSE, ui |-> NoFile, file |-> TRUE]

\* CarDetails.Load: read, decode, and recompute Specs from SpecsFull.
DetailsLoad(carName) ==
  LET ui == fs[carName].ui
  IN CASE fs[carName].file -> [err |-> "ErrIO", cd |-> ZeroDetails]
       [] ui.kind = "none" -> [err |-> "ErrNotExist", cd |-> ZeroDetails]
       [] ui.kind \in {"bad", "empty"} -> [err |-> "ErrParse", cd |-> ZeroDetails]
       [] OTHER -> [err |-> "nil",
                    cd |-> [ui.doc EXCEPT !.Specs = Numeric(ui.doc.SpecsFull)]]

\* CarDetails.Save: MkdirAll(ui), Create(ui_car.json), Encode.  f names the
\* call that fails, "none" when none does; MkdirAll fails under a regular
\* file.  The result is fs[carName] after.
DetailsSave(cd, carName, f) ==
  CASE f = "mkdir" \/ fs[carName].file -> fs[carName]
    [] f = "create" -> [fs[carName] EXCEPT !.dir = TRUE]
    [] f = "encode" -> [fs[carName] EXCEPT !.dir = TRUE, !.ui = BadFile]
    [] OTHER -> [fs[carName] EXCEPT !.dir = TRUE, !.ui = File(cd)]

SaveFailures == {"mkdir", "create", "encode"}

\* The tyre registry ListTyres returns, and the nil registry.
NoTyres == << >>
TyreRegistry(name) == <<"tyres", name>>
TyresOf(tyres, name) == IF tyres = "nil" THEN NoTyres ELSE TyreRegistry(name)

NilCar == [Name |-> 0, Tyres |-> NoTyres, Details |-> ZeroDetails]

\* LoadCar as it would be if a missing ui_car.json were returned as an error.
LoadCarStrict(name, tyres) ==
  IF fs[name].file
  THEN [err |-> "ErrIO", car |-> NilCar]
  ELSE IF ~(fs[name].dir /\ fs[name].skins)
  THEN [err |-> "ErrNotExist", car |-> NilCar]
  ELSE LET l == DetailsLoad(name)
       IN IF l.err # "nil" THEN [err |-> l.err, car |-> NilCar]
          ELSE [err |-> "nil",
                car |-> [Name |-> name, Tyres |-> TyresOf(tyres, name), Details |-> l.cd]]

\* CarManager.LoadCar: [err, car].
LoadCar(name, tyres) ==
  IF fs[name].file
  THEN [err |-> "ErrIO", car |-> NilCar]
  ELSE IF ~(fs[name].dir /\ fs[name].skins)
  THEN [err |-> "ErrNotExist", car |-> NilCar]
  ELSE LET l == DetailsLoad(name)
       IN CASE l.err = "ErrNotExist" ->
                 [err |-> "nil",
                  car |-> [Name |-> name, Tyres |-> TyresOf(tyres, name),
                           Details |-> [ZeroDetails EXCEPT !.Name = prettifyName(name)]]]
            [] l.err # "nil" -> [err |-> l.err, car |-> NilCar]
            [] OTHER ->
                 [err |-> "nil",
                  car |-> [Name |-> name, Tyres |-> TyresOf(tyres, name),
                           Details |-> l.cd]]

\* The loop of ListCars as it would be if a failed load ended it with the
\* cars loaded so far.
RECURSIVE ListFromPartial(_, _)
ListFromPartial(n, acc) ==
  IF n \notin CarNames THEN [err |-> "nil", cars |-> acc]
  ELSE IF ~fs[n].dir THEN ListFromPartial(n + 1, acc)
  ELSE LET l == LoadCar(n, "registry")
       IN CASE l.err = "ErrNotExist" -> ListFromPartial(n + 1, acc)
            [] l.err # "nil" -> [err |-> l.err, cars |-> acc]
            [] OTHER -> ListFromPartial(n + 1, Append(acc, l.car))

\* The loop of ListCars over the directory entries from name n on: the cars
\* loaded so far are acc; a not-found load is skipped, another error aborts.
RECURSIVE ListFrom(_, _)
ListFrom(n, acc) ==
  IF n \notin CarNames THEN [err |-> "nil", cars |-> acc]
  ELSE IF ~fs[n].dir THEN ListFrom(n + 1, acc)
  ELSE LET l == LoadCar(n, "registry")
       IN CASE l.err = "ErrNotExist" -> ListFrom(n + 1, acc)
            [] l.err # "nil" -> [err |-> l.err, cars |-> << >>]
            [] OTHER -> ListFrom(n + 1, Append(acc, l.car))

\* CarManager.ListCars: [err, cars], the cars in display-name order.  f = "list"
\* is a failure of ReadDir(content/cars) or of ListTyres.
ListCars(f) ==
  IF f = "list" THEN [err |-> "ErrIO", cars |-> << >>]
  ELSE ListFrom(1, << >>)

\* The names of a list of cars.
NamesOf(cars) == {cars[i].Name : i \in 1..Len(cars)}

----------------------------------------------------------------------------
\* The search index (bleve), keyed by car name

searchPageSize == 50

\* Whether the query for term matches document cd: the empty term is the
\* match-all query; a query string matches a document that holds the word.
Matches(cd, term) ==
  \/ term = ""
  \/ \E i \in 1..Len(cd.Tags) : cd.Tags[i] = term
  \/ cd.Notes = term

\* The ordered list of all hits for term, from name n on.
RECURSIVE HitsFrom(_, _)
HitsFrom(term, n) ==
  IF n \notin CarNames THEN << >>
  ELSE IF docs[n] # NoDoc /\ Matches(docs[n][1], term)
       THEN <<n>> \o HitsFrom(term, n + 1)
  ELSE HitsFrom(term, n + 1)

\* A search request of the given size and offset over the ordered hits:
\* the hits at offsets from .. from+size-1 that exist.
PageOf(hits, size, from) ==
  IF from >= Len(hits) THEN << >>
  ELSE SubSeq(hits, from + 1, IF from + size < Len(hits) THEN from + size ELSE Len(hits))

\* bleve Index.Index(id, doc): the documents after it.
IndexPut(d, id, cd) == [d EXCEPT ![id] = <<cd>>]

\* bleve Index.Delete(id): the documents after it; absence is no error.
IndexDelete(d, id) == [d EXCEPT ![id] = NoDoc]

\* CarManager.IndexCar on documents d: [err, docs].
IndexCar(d, car, f) ==
  IF f = "index" THEN [err |-> "ErrIndex", docs |-> d]
  ELSE [err |-> "nil", docs |-> IndexPut(d, car.Name, car.Details)]

\* DeIndexCar as it would be if it left the document in place.
DeIndexCarKeeps(d, name, f) ==
  IF f = "index" THEN [err |-> "ErrIndex", docs |-> d]
  ELSE [err |-> "nil", docs |-> d]

\* CarManager.DeIndexCar on documents d: [err, docs].
DeIndexCar(d, name, f) ==
  IF f = "index" THEN [err |-> "ErrIndex", docs |-> d]
  ELSE [err |-> "nil", docs |-> IndexDelete(d, name)]

\* The loop of Search as it would be if a hit that does not load were left
\* out of the cars.
RECURSIVE HydrateSkipping(_, _, _)
HydrateSkipping(hits, i, acc) ==
  IF i > Len(hits) THEN [err |-> "nil", cars |-> acc]
  ELSE LET l == LoadCar(hits[i], "nil")
       IN IF l.err # "nil" THEN HydrateSkipping(hits, i + 1, acc)
          ELSE HydrateSkipping(hits, i + 1, acc \cup {l.car})

\* The loop of Search over the hits of its page from position i on: the first
\* hit that does not load ends the search with its error and no cars.
RECURSIVE HydrateFrom(_, _, _)
HydrateFrom(hits, i, acc) ==
  IF i > Len(hits) THEN [err |-> "nil", cars |-> acc]
  ELSE LET l == LoadCar(hits[i], "nil")
       IN IF l.err # "nil" THEN [err |-> l.err, cars |-> {}]
          ELSE HydrateFrom(hits, i + 1, acc \cup {l.car})

\* CarManager.Search: [err, total, hits, cars].  f = "index" is a failure of
\* the index search, f = "cancelled" the context ending it.
Search(term, from, f) ==
  IF f \in {"index", "cancelled"}
  THEN [err |-> IF f = "index" THEN "ErrIndex" ELSE "ErrCancelled",
        total |-> 0, hits |-> << >>, cars |-> {}]
  ELSE LET all == HitsFrom(term, 1)
           hits == PageOf(all, searchPageSize, from)
           h == HydrateFrom(hits, 1, {})
       IN IF h.err # "nil"
          THEN [err |-> h.err, total |-> 0, hits |-> << >>, cars |-> {}]
          ELSE [err |-> "nil", total |-> Len(all), hits |-> hits, cars |-> h.cars]

----------------------------------------------------------------------------
\* The methods of CarManager.  Each gives what the call returns and the state
\* it leaves: [err, fs, docs, calls, found], calls being the calls it made.

HasTag(cd, name) == \E i \in 1..Len(cd.Tags) : cd.Tags[i] = name

\* SaveCarDetails as it would be without the index put.
SaveCarDetailsNoPut(carName, car, f) ==
  [err |-> IF f \in SaveFailures \/ fs[carName].file THEN "ErrIO" ELSE "nil",
   fs |-> [fs EXCEPT ![carName] = DetailsSave(car.Details, carName, f)],
   docs |-> docs, calls |-> <<"Save">>, found |-> FALSE]

\* SaveCarDetails as it would be if a failed index put undid the write.
SaveCarDetailsRollsBack(carName, car, f) ==
  LET saved == [fs EXCEPT ![carName] = DetailsSave(car.Details, carName, f)]
  IN IF f \in SaveFailures \/ fs[carName].file
     THEN [err |-> "ErrIO", fs |-> saved, docs |-> docs,
           calls |-> <<"Save">>, found |-> FALSE]
     ELSE LET ix == IndexCar(docs, car, f)
          IN [err |-> ix.err, fs |-> IF ix.err = "nil" THEN saved ELSE fs,
              docs |-> ix.docs, calls |-> <<"Save", "IndexCar">>, found |-> FALSE]

\* CarManager.SaveCarDetails
SaveCarDetails(carName, car, f) ==
  LET saved == [fs EXCEPT ![carName] = DetailsSave(car.Details, carName, f)]
  IN IF f \in SaveFailures \/ fs[carName].file
     THEN [err |-> "ErrIO", fs |-> saved, docs |-> docs,
           calls |-> <<"Save">>, found |-> FALSE]
     ELSE LET ix == IndexCar(docs, car, f)
          IN [err |-> ix.err, fs |-> saved, docs |-> ix.docs,
              calls |-> <<"Save", "IndexCar">>, found |-> FALSE]

\* CarManager.AddTag
AddTag(carName, tag, f) ==
  LET l == LoadCar(carName, "nil")
  IN IF l.err # "nil"
     THEN [err |-> l.err, fs |-> fs, docs |-> docs,
           calls |-> <<"LoadCar">>, found |-> FALSE]
     ELSE LET car == [l.car EXCEPT !.Details = DetailsAddTag(@, tag)]
              r == SaveCarDetails(carName, car, f)
          IN [r EXCEPT !.calls = <<"LoadCar">> \o @,
                       !.found = HasTag(l.car.Details, tag)]

\* CarManager.DelTag
DelTag(carName, tag, f) ==
  LET l == LoadCar(carName, "nil")
  IN IF l.err # "nil"
     THEN [err |-> l.err, fs |-> fs, docs |-> docs,
           calls |-> <<"LoadCar">>, found |-> FALSE]
     ELSE LET car == [l.car EXCEPT !.Details = DetailsDelTag(@, tag)]
              r == SaveCarDetails(carName, car, f)
          IN [r EXCEPT !.calls = <<"LoadCar">> \o @,
                       !.found = HasTag(l.car.Details, tag)]

\* CarManager.UpdateCarMetadata: notes is the form's Notes value.
UpdateCarMetadata(carName, notes, f) ==
  LET l == LoadCar(carName, "nil")
  IN IF l.err # "nil"
     THEN [err |-> l.err, fs |-> fs, docs |-> docs,
           calls |-> <<"LoadCar">>, found |-> FALSE]
     ELSE LET cd == [l.car.Details EXCEPT !.Notes = notes]
          IN [err |-> IF f \in SaveFailures THEN "ErrIO" ELSE "nil",
              fs |-> [fs EXCEPT ![carName] = DetailsSave(cd, carName, f)],
              docs |-> docs, calls |-> <<"LoadCar", "Save">>, found |-> FALSE]

\* What a failed os.RemoveAll can leave of the subtree of carName.
RemoveLeftovers(carName) ==
  {fs[carName], [fs[carName] EXCEPT !.ui = NoFile],
   [fs[carName] EXCEPT !.skins = FALSE]}

\* DeleteCar as it would be if it removed the subtree without consulting the
\* listing.
DeleteCarUnlisted(carName, f, left) ==
  LET existingCars == ListCars(f)
  IN IF existingCars.err # "nil"
     THEN [err |-> existingCars.err, fs |-> fs, docs |-> docs,
           calls |-> <<"ListCars">>, found |-> FALSE]
     ELSE LET dx == DeIndexCar(docs, carName, f)
          IN [err |-> dx.err, fs |-> [fs EXCEPT ![carName] = Absent], docs |-> dx.docs,
              calls |-> <<"ListCars", "RemoveAll", "DeIndexCar">>,
              found |-> carName \in NamesOf(existingCars.cars)]

\* DeleteCar as it would be if it returned early for a name not listed.
DeleteCarSkipsDeindex(carName, f, left) ==
  LET existingCars == ListCars(f)
  IN IF existingCars.err # "nil"
     THEN [err |-> existingCars.err, fs |-> fs, docs |-> docs,
           calls |-> <<"ListCars">>, found |-> FALSE]
     ELSE IF carName \notin NamesOf(existingCars.cars)
     THEN [err |-> "nil", fs |-> fs, docs |-> docs,
           calls |-> <<"ListCars">>, found |-> FALSE]
     ELSE IF f = "remove"
     THEN [err |-> "ErrIO", fs |-> [fs EXCEPT ![carName] = left], docs |-> docs,
           calls |-> <<"ListCars", "RemoveAll">>, found |-> TRUE]
     ELSE LET dx == DeIndexCar(docs, carName, f)
          IN [err |-> dx.err, fs |-> [fs EXCEPT ![carName] = Absent], docs |-> dx.docs,
              calls |-> <<"ListCars", "RemoveAll", "DeIndexCar">>, found |-> TRUE]

\* CarManager.DeleteCar: left is what RemoveAll leaves when it fails
\* (f = "remove").
DeleteCar(carName, f, left) ==
  LET existingCars == ListCars(f)
  IN IF existingCars.err # "nil"
     THEN [err |-> existingCars.err, fs |-> fs, docs |-> docs,
           calls |-> <<"ListCars">>, found |-> FALSE]
     ELSE IF carName \in NamesOf(existingCars.cars) /\ f = "remove"
     THEN [err |-> "ErrIO", fs |-> [fs EXCEPT ![carName] = left], docs |-> docs,
           calls |-> <<"ListCars", "RemoveAll">>, found |-> TRUE]
     ELSE LET found == carName \in NamesOf(existingCars.cars)
              dx == DeIndexCar(docs, carName, f)
          IN [err |-> dx.err,
              fs |-> IF found THEN [fs EXCEPT ![carName] = Absent] ELSE fs,
              docs |-> dx.docs,
              calls |-> IF found THEN <<"ListCars", "RemoveAll", "DeIndexCar">>
                        ELSE <<"ListCars", "DeIndexCar">>,
              found |-> found]

\* The loop of IndexAllCars as it would be if it stopped after one car.
IndexFromFirstOnly(d, cars, i, f, k) ==
  IF i > Len(cars) THEN [err |-> "nil", docs |-> d]
  ELSE IndexCar(d, cars[i], IF i = k THEN f ELSE "none")

\* The loop of IndexAllCars from car i on, over documents d: the k-th IndexCar
\* fails when f = "index".
RECURSIVE IndexFrom(_, _, _, _, _)
IndexFrom(d, cars, i, f, k) ==
  IF i > Len(cars) THEN [err |-> "nil", docs |-> d]
  ELSE LET ix == IndexCar(d, cars[i], IF i = k THEN f ELSE "none")
       IN IF ix.err # "nil" THEN [err |-> ix.err, docs |-> ix.docs]
          ELSE IndexFrom(ix.docs, cars, i + 1, f, k)

\* CarManager.IndexAllCars over documents d: [err, docs, calls].
IndexAllCars(d, f, k) ==
  LET cars == ListCars(f)
  IN IF cars.err # "nil"
     THEN [err |-> cars.err, docs |-> d, calls |-> <<"ListCars">>]
     ELSE LET r == IndexFrom(d, cars.cars, 1, f, k)
          IN [err |-> r.err, docs |-> r.docs, calls |-> <<"ListCars", "IndexCar">>]

\* The documents of a newly created index.
EmptyIndex == [n \in CarNames |-> NoDoc]

\* CarManager.CreateOrOpenSearchIndex: [err, idxOnDisk, carIndex, docs, calls].
\* f = "open" is bleve.Open failing on an index that exists, f = "new" is
\* bleve.New failing; a failed Open or New leaves cm.carIndex nil.
CreateOrOpenSearchIndex(f, k) ==
  IF idxOnDisk
  THEN IF f = "open"
       THEN [err |-> "ErrIndex", idxOnDisk |-> TRUE, carIndex |-> "nil",
             docs |-> docs, calls |-> <<"Open">>]
       ELSE [err |-> "nil", idxOnDisk |-> TRUE, carIndex |-> "open",
             docs |-> docs, calls |-> <<"Open">>]
  ELSE IF f = "new"
       THEN [err |-> "ErrIndex", idxOnDisk |-> FALSE, carIndex |-> "nil",
             docs |-> docs, calls |-> <<"Open", "New">>]
       ELSE LET r == IndexAllCars(EmptyIndex, f, k)
            IN [err |-> r.err, idxOnDisk |-> TRUE, carIndex |-> "open",
                docs |-> r.docs, calls |-> <<"Open", "New", "IndexAllCars">>]

----------------------------------------------------------------------------
\* The initial states

\* The documents ui_car.json can hold when the manager starts, with tag lists
\* from tagLists: edited by hand, so the numeric Specs may be stale against
\* SpecsFull (here the empty strings, whose numbers are 0).
AuthoredDetails(n, tagLists) ==
  {[Name |-> prettifyName(n), Tags |-> t, Notes |-> "", SpecsFull |-> ZeroSpecs,
    Specs |-> sp] : t \in tagLists, sp \in {ZeroNumeric, [ZeroNumeric EXCEPT !.BHP = 12]}}

\* The subtrees content/cars/n can be when the manager starts.
Subtrees(n, tagLists) ==
  {Absent}
  \cup {[dir |-> TRUE, skins |-> sk, ui |-> ui, file |-> FALSE] :
          sk \in BOOLEAN,
          ui \in {NoFile, BadFile} \cup {File(cd) : cd \in AuthoredDetails(n, tagLists)}}

\* The documents an index left by an earlier run can hold under n: documents
\* as LoadCar yields them.
IndexedDetails(n, tagLists) ==
  {NoDoc} \cup {<<[cd EXCEPT !.Specs = Numeric(cd.SpecsFull)]>> :
                  cd \in AuthoredDetails(n, tagLists)}

\* The callers that can have a call in flight, and none in flight.
Callers == {1, 2}
Idle == [op |-> "none", pc |-> "idle"]
NoneRunning == [c \in Callers |-> Idle]

NoCall ==
  [op |-> "none", id |-> 0, arg |-> "", err |-> "nil", calls |-> << >>,
   found |-> FALSE, total |-> 0, hits |-> << >>, cars |-> {}]

\* The tag lists of the documents the catalog starts with.
StartTagLists == {<< >>}

\* Nothing rendered, over an index of T hits.
NoView(T) ==
  [op |-> "none", T |-> T, CurrentPage |-> 0, From |-> 0, Total |-> 0,
   NumPages |-> 0, Hits |-> << >>]

InitFs ==
  fs \in {t \in [CarNames -> UNION {Subtrees(n, StartTagLists) : n \in CarNames}] :
            \A n \in CarNames : t[n] \in Subtrees(n, StartTagLists)}

\* The manager has opened an index an earlier run left at the path.
Init ==
  /\ InitFs
  /\ idxOnDisk = TRUE
  /\ carIndex = "open"
  /\ docs \in {d \in [CarNames -> UNION {IndexedDetails(n, StartTagLists) : n \in CarNames}] :
                 \A n \in CarNames : d[n] \in IndexedDetails(n, StartTagLists)}
  /\ last = NoCall
  /\ view = NoView(0)
  /\ running = NoneRunning
  /\ order = << >>

----------------------------------------------------------------------------
\* The calls

Returned(op, id, arg, r) ==
  [NoCall EXCEPT !.op = op, !.id = id, !.arg = arg, !.err = r.err,
                 !.calls = r.calls, !.found = r.found]

\* The documents callers hand to SaveCarDetails for carName.
SaveInputs(carName) ==
  {[Name |-> prettifyName(carName), Tags |-> t, Notes |-> nt, SpecsFull |-> ZeroSpecs,
    Specs |-> ZeroNumeric] : t \in {<< >>}, nt \in NoteTexts}

CallSaveCarDetails(carName, cd, f) ==
  /\ carIndex = "open"
  /\ LET r == SaveCarDetails(carName, [Name |-> carName, Tyres |-> NoTyres, Details |-> cd], f)
     IN /\ fs' = r.fs
        /\ docs' = r.docs
        /\ last' = Returned("SaveCarDetails", carName, cd.Notes, r)
  /\ UNCHANGED <<idxOnDisk, carIndex, view, running, order>>

CallAddTag(carName, tag, f) ==
  /\ carIndex = "open"
  /\ LET r == AddTag(carName, tag, f)
     IN /\ fs' = r.fs
        /\ docs' = r.docs
        /\ last' = Returned("AddTag", carName, tag, r)
  /\ UNCHANGED <<idxOnDisk, carIndex, view, running, order>>

CallDelTag(carName, tag, f) ==
  /\ carIndex = "open"
  /\ LET r == DelTag(carName, tag, f)
     IN /\ fs' = r.fs
        /\ docs' = r.docs
        /\ last' = Returned("DelTag", carName, tag, r)
  /\ UNCHANGED <<idxOnDisk, carIndex, view, running, order>>

CallUpdateCarMetadata(carName, notes, f) ==
  /\ LET r == UpdateCarMetadata(carName, notes, f)
     IN /\ fs' = r.fs
        /\ docs' = r.docs
        /\ last' = Returned("UpdateCarMetadata", carName, notes, r)
  /\ UNCHANGED <<idxOnDisk, carIndex, view, running, order>>

CallDeleteCar(carName, f, left) ==
  /\ carIndex = "open"
  /\ LET r == DeleteCar(carName, f, left)
     IN /\ fs' = r.fs
        /\ docs' = r.docs
        /\ last' = Returned("DeleteCar", carName, "", r)
  /\ UNCHANGED <<idxOnDisk, carIndex, view, running, order>>

CallIndexAllCars(f, k) ==
  /\ carIndex = "open"
  /\ LET r == IndexAllCars(docs, f, k)
     IN /\ docs' = r.docs
        /\ last' = [NoCall EXCEPT !.op = "IndexAllCars", !.err = r.err, !.calls = r.calls]
  /\ UNCHANGED <<fs, idxOnDisk, carIndex, view, running, order>>

\* Search as it would be if it removed from the index the hits that do not
\* load.
CallSearchPruning(term, from, f) ==
  /\ carIndex = "open"
  /\ LET r == Search(term, from, f)
     IN last' = [NoCall EXCEPT !.op = "Search", !.arg = term, !.id = from, !.err = r.err,
                               !.total = r.total, !.hits = r.hits, !.cars = r.cars]
  /\ docs' = [n \in CarNames |-> IF LoadCar(n, "nil").err = "nil" THEN docs[n] ELSE NoDoc]
  /\ UNCHANGED <<fs, idxOnDisk, carIndex, view, running, order>>

CallSearch(term, from, f) ==
  /\ carIndex = "open"
  /\ LET r == Search(term, from, f)
     IN last' = [NoCall EXCEPT !.op = "Search", !.arg = term, !.id = from, !.err = r.err,
                               !.total = r.total, !.hits = r.hits, !.cars = r.cars]
  /\ UNCHANGED <<fs, idxOnDisk, carIndex, docs, view, running, order>>

CallLoadCar(name, tyres) ==
  /\ LET r == LoadCar(name, tyres)
     IN last' = [NoCall EXCEPT !.op = "LoadCar", !.id = name, !.arg = tyres, !.err = r.err,
                               !.cars = IF r.err = "nil" THEN {r.car} ELSE {}]
  /\ UNCHANGED <<fs, idxOnDisk, carIndex, docs, view, running, order>>

CallListCars(f) ==
  /\ LET r == ListCars(f)
     IN last' = [NoCall EXCEPT !.op = "ListCars", !.arg = f, !.err = r.err,
                               !.hits = [i \in 1..Len(r.cars) |-> r.cars[i].Name],
                               !.cars = {r.cars[i] : i \in 1..Len(r.cars)}]
  /\ UNCHANGED <<fs, idxOnDisk, carIndex, docs, view, running, order>>

\* CreateOrOpenSearchIndex is called once per process, before any other call.
CallCreateOrOpenSearchIndex(f, k) ==
  /\ carIndex = "nil"
  /\ LET r == CreateOrOpenSearchIndex(f, k)
     IN /\ idxOnDisk' = r.idxOnDisk
        /\ carIndex' = r.carIndex
        /\ docs' = r.docs
        /\ last' = [NoCall EXCEPT !.op = "CreateOrOpenSearchIndex", !.err = r.err,
                                  !.calls = r.calls]
  /\ UNCHANGED <<fs, view, running, order>>

\* The process ends and a new one starts: NewCarManager, with no index open.
Restart ==
  /\ carIndex' = "nil"
  /\ last' = [NoCall EXCEPT !.op = "NewCarManager"]
  /\ UNCHANGED <<fs, idxOnDisk, docs, view, running, order>>

\* The search terms of the calls: match-all, and a word of the notes.
Terms == {"", "n"}

\* The calls that keep the catalog and the index in step, with every failure.
Next ==
  \/ \E n \in CarNames, f \in {"none", "index"} \cup SaveFailures :
        \E cd \in SaveInputs(n) : CallSaveCarDetails(n, cd, f)
  \/ \E n \in CarNames, f \in {"none"} \cup SaveFailures :
        \E nt \in NoteTexts : CallUpdateCarMetadata(n, nt, f)
  \/ \E n \in CarNames, f \in {"none", "list", "index"} :
        CallDeleteCar(n, f, fs[n])
  \/ \E n \in CarNames : \E left \in RemoveLeftovers(n) : CallDeleteCar(n, "remove", left)
  \/ \E f \in {"none", "list"} : CallIndexAllCars(f, 0)
  \/ \E k \in CarNames : CallIndexAllCars("index", k)
  \/ \E t \in Terms, p \in {0, 1} : CallSearch(t, p * searchPageSize, "none")
  \/ \E f \in {"index", "cancelled"} : CallSearch("", 0, f)

Spec == Init /\ [][Next]_vars

----------------------------------------------------------------------------
\* The tag calls on their own, over every duplicate-free list of two tags.

NoDupTagLists == {<< >>, <<"a">>, <<"b">>, <<"a", "b">>, <<"b", "a">>}

InitTags ==
  /\ fs \in {t \in [CarNames -> UNION {Subtrees(n, NoDupTagLists) : n \in CarNames}] :
              /\ t[1] \in Subtrees(1, NoDupTagLists)
              /\ t[1].dir
              /\ t[2] \in {Absent, [dir |-> TRUE, skins |-> TRUE, ui |-> NoFile, file |-> FALSE]}}
  /\ idxOnDisk = TRUE
  /\ carIndex = "open"
  /\ docs \in {d \in [CarNames -> UNION {IndexedDetails(n, {<< >>, <<"a">>}) : n \in CarNames}] :
                 d[1] \in IndexedDetails(1, {<< >>, <<"a">>}) /\ d[2] = NoDoc}
  /\ last = NoCall
  /\ view = NoView(0)
  /\ running = NoneRunning
  /\ order = << >>

NextTags ==
  \E n \in CarNames, t \in TagNames, f \in {"none", "index"} \cup SaveFailures :
     \/ CallAddTag(n, t, f)
     \/ CallDelTag(n, t, f)

SpecTags == InitTags /\ [][NextTags]_vars

----------------------------------------------------------------------------
\* Starting the manager: CreateOrOpenSearchIndex on a path with no index, and
\* restarts of the process.

InitOpen ==
  /\ InitFs
  /\ idxOnDisk = FALSE
  /\ carIndex = "nil"
  /\ docs = EmptyIndex
  /\ last = [NoCall EXCEPT !.op = "NewCarManager"]
  /\ view = NoView(0)
  /\ running = NoneRunning
  /\ order = << >>

NextOpen ==
  \/ \E f \in {"none", "open", "new", "list"} : CallCreateOrOpenSearchIndex(f, 0)
  \/ \E k \in CarNames : CallCreateOrOpenSearchIndex("index", k)
  \/ Restart

SpecOpen == InitOpen /\ [][NextOpen]_vars

----------------------------------------------------------------------------
\* CarsHandler.list over an index whose query has T hits, all of which load.

MaxTotal == 130
MaxPage == 3

\* The page count as it would be with integer division in place of Ceil.
NumPagesFloor(total) == total \div searchPageSize

\* int(math.Ceil(float64(total) / float64(searchPageSize)))
NumPagesOf(total) ==
  IF total % searchPageSize = 0 THEN total \div searchPageSize
  ELSE total \div searchPageSize + 1

\* CarsHandler.list for page number page: the hits are named by their
\* zero-based positions in the full ordered match list.
list(T, page) ==
  LET from == page * searchPageSize
      all == [i \in 1..T |-> i - 1]
  IN [op |-> "list", T |-> T, CurrentPage |-> page, From |-> from, Total |-> Len(all),
      NumPages |-> NumPagesOf(Len(all)), Hits |-> PageOf(all, searchPageSize, from)]

CallList(page) ==
  /\ view' = list(view.T, page)
  /\ UNCHANGED <<fs, idxOnDisk, carIndex, docs, last, running, order>>

InitPage ==
  /\ fs = [n \in CarNames |-> Absent]
  /\ idxOnDisk = TRUE
  /\ carIndex = "open"
  /\ docs = EmptyIndex
  /\ last = NoCall
  /\ view \in {NoView(T) : T \in 0..MaxTotal}
  /\ running = NoneRunning
  /\ order = << >>

NextPage == \E page \in 0..MaxPage : CallList(page)

SpecPage == InitPage /\ [][NextPage]_vars

----------------------------------------------------------------------------
\* toNumber and CarSpecs.Numeric on their own, over every string of up to
\* MaxLen characters and the spec texts of the documentation.

MaxLen == 4

Chars == {"0", "1", "2", "x", "."}

RECURSIVE StringsUpTo(_)
StringsUpTo(k) ==
  IF k = 0 THEN {<< >>}
  ELSE LET shorter == StringsUpTo(k - 1)
       IN shorter \cup {Append(t, c) : t \in shorter, c \in Chars}

\* "450 bhp", "N/A", "12.5s"
SpecTexts ==
  {<<"4", "5", "0", " ", "b", "h", "p">>, <<"N", "/", "A">>, <<"1", "2", ".", "5", "s">>}

\* The texts of the fields of a CarSpecs.
FieldTexts == {<< >>, <<"1">>, <<"x", "2", "0">>}

\* The inputs: a string for toNumber, a CarSpecs for Numeric.
NumberInputs ==
  {[op |-> "string", str |-> str] : str \in StringsUpTo(MaxLen) \cup SpecTexts}
  \cup {[op |-> "specs", cs |-> cs] :
           cs \in [{"Acceleration", "BHP", "PWRatio", "TopSpeed", "Torque", "Weight"}
                     -> FieldTexts]}

CallToNumber ==
  /\ last.op = "string"
  /\ last' = [op |-> "toNumber", str |-> last.str, n |-> toNumber(last.str)]
  /\ UNCHANGED <<fs, idxOnDisk, carIndex, docs, view, running, order>>

CallNumeric ==
  /\ last.op = "specs"
  /\ last' = [op |-> "Numeric", cs |-> last.cs, numeric |-> Numeric(last.cs)]
  /\ UNCHANGED <<fs, idxOnDisk, carIndex, docs, view, running, order>>

InitNumber ==
  /\ fs = [n \in CarNames |-> Absent]
  /\ idxOnDisk = TRUE
  /\ carIndex = "open"
  /\ docs = EmptyIndex
  /\ last \in NumberInputs
  /\ view = NoView(0)
  /\ running = NoneRunning
  /\ order = << >>

NextNumber == CallToNumber \/ CallNumeric

SpecNumber == InitNumber /\ [][NextNumber]_vars

----------------------------------------------------------------------------
\* The calls that only read: LoadCar, ListCars and Search, over every catalog
\* (regular files under content/cars included) and every index.

InitRead ==
  /\ fs \in {t \in [CarNames -> {PlainFile}
                               \cup UNION {Subtrees(n, StartTagLists) : n \in CarNames}] :
              \A n \in CarNames : t[n] \in {PlainFile} \cup Subtrees(n, StartTagLists)}
  /\ idxOnDisk = TRUE
  /\ carIndex = "open"
  /\ docs \in {d \in [CarNames -> UNION {IndexedDetails(n, StartTagLists) : n \in CarNames}] :
                 \A n \in CarNames : d[n] \in IndexedDetails(n, StartTagLists)}
  /\ last = NoCall
  /\ view = NoView(0)
  /\ running = NoneRunning
  /\ order = << >>

NextRead ==
  \/ \E n \in CarNames, t \in {"nil", "registry"} : CallLoadCar(n, t)
  \/ \E f \in {"none", "list"} : CallListCars(f)
  \/ \E t \in Terms, p \in {0, 1} : CallSearch(t, p * searchPageSize, "none")
  \/ \E f \in {"index", "cancelled"} : CallSearch("", 0, f)

SpecRead == InitRead /\ [][NextRead]_vars

----------------------------------------------------------------------------
\* The manager from its start on a path with no index, every call succeeding
\* in its I/O: the catalogs are those ListCars can list.

InitSync ==
  /\ InitFs
  /\ ListCars("none").err = "nil"
  /\ idxOnDisk = FALSE
  /\ carIndex = "nil"
  /\ docs = EmptyIndex
  /\ last = [NoCall EXCEPT !.op = "NewCarManager"]
  /\ view = NoView(0)
  /\ running = NoneRunning
  /\ order = << >>

NextSync ==
  \/ CallCreateOrOpenSearchIndex("none", 0)
  \/ \E n \in CarNames : \E cd \in SaveInputs(n) : CallSaveCarDetails(n, cd, "none")
  \/ \E n \in CarNames, t \in TagNames : CallAddTag(n, t, "none")
  \/ \E n \in CarNames, t \in TagNames : CallDelTag(n, t, "none")
  \/ \E n \in CarNames, nt \in NoteTexts : carIndex = "open" /\ CallUpdateCarMetadata(n, nt, "none")
  \/ \E n \in CarNames : CallDeleteCar(n, "none", fs[n])

SpecSync == InitSync /\ [][NextSync]_vars

----------------------------------------------------------------------------
\* Two callers, each making one call of SaveCarDetails or AddTag, the calls
\* running concurrently: a call takes its steps (LoadCar; MkdirAll and Create;
\* Encode; the index put) one at a time, interleaved with the other's.  There
\* is no lock in CarManager; the index serialises its own operations.

\* Caller c calls SaveCarDetails(id, car) with Details cd.
StartSaveCarDetails(c, id, cd) ==
  /\ running[c] = Idle
  /\ running' = [running EXCEPT ![c] =
                   [op |-> "SaveCarDetails", pc |-> "create", id |-> id, tag |-> "",
                    car |-> [Name |-> id, Tyres |-> NoTyres, Details |-> cd],
                    err |-> "nil"]]
  /\ UNCHANGED <<fs, idxOnDisk, carIndex, docs, last, view, order>>

\* Caller c calls AddTag(id, tag).
StartAddTag(c, id, tag) ==
  /\ running[c] = Idle
  /\ running' = [running EXCEPT ![c] =
                   [op |-> "AddTag", pc |-> "load", id |-> id, tag |-> tag,
                    car |-> NilCar, err |-> "nil"]]
  /\ UNCHANGED <<fs, idxOnDisk, carIndex, docs, last, view, order>>

\* AddTag: LoadCar, then car.Details.AddTag on the loaded record.
StepLoad(c) ==
  /\ running[c].pc = "load"
  /\ LET l == LoadCar(running[c].id, "nil")
     IN running' = [running EXCEPT ![c] =
                      IF l.err # "nil"
                      THEN [@ EXCEPT !.pc = "done", !.err = l.err]
                      ELSE [@ EXCEPT !.pc = "create",
                                     !.car = [l.car EXCEPT !.Details =
                                                DetailsAddTag(@, running[c].tag)]]]
  /\ order' = Append(order, <<c, "load">>)
  /\ UNCHANGED <<fs, idxOnDisk, carIndex, docs, last, view>>

\* CarDetails.Save: MkdirAll and os.Create, which truncates the file.
StepCreate(c) ==
  /\ running[c].pc = "create"
  /\ fs' = [fs EXCEPT ![running[c].id] = [@ EXCEPT !.dir = TRUE, !.ui = EmptyFile]]
  /\ running' = [running EXCEPT ![c].pc = "encode"]
  /\ order' = Append(order, <<c, "create">>)
  /\ UNCHANGED <<idxOnDisk, carIndex, docs, last, view>>

\* What the file can hold after the caller's Encode wrote cd from the start
\* of the file: cd when the file was empty or held cd; over other content
\* written since the caller's Create, cd or a mix that does not decode.
Overwritten(ui, cd) ==
  IF ui.kind = "empty" \/ ui = File(cd) THEN {File(cd)} ELSE {File(cd), BadFile}

\* CarDetails.Save: Encode, one write from the offset of the caller's handle.
StepEncode(c) ==
  /\ running[c].pc = "encode"
  /\ \E ui \in Overwritten(fs[running[c].id].ui, running[c].car.Details) :
        fs' = [fs EXCEPT ![running[c].id].ui = ui]
  /\ running' = [running EXCEPT ![c].pc = "put"]
  /\ order' = Append(order, <<c, "encode">>)
  /\ UNCHANGED <<idxOnDisk, carIndex, docs, last, view>>

\* The put as it would be if the document of an earlier put were kept.
StepPutKeepsFirst(c) ==
  /\ running[c].pc = "put"
  /\ docs' = IF \E i \in 1..Len(order) : order[i][2] = "put"
             THEN docs
             ELSE IndexCar(docs, running[c].car, "none").docs
  /\ running' = [running EXCEPT ![c].pc = "done"]
  /\ order' = Append(order, <<c, "put">>)
  /\ UNCHANGED <<fs, idxOnDisk, carIndex, last, view>>

\* SaveCarDetails: cm.IndexCar(car), and the call returns.
StepPut(c) ==
  /\ running[c].pc = "put"
  /\ docs' = IndexCar(docs, running[c].car, "none").docs
  /\ running' = [running EXCEPT ![c].pc = "done"]
  /\ order' = Append(order, <<c, "put">>)
  /\ UNCHANGED <<fs, idxOnDisk, carIndex, last, view>>

\* The catalog before the calls: car 1 with skins, with or without a
\* ui_car.json; car 2 with skins and no ui_car.json, or absent.
InitRace ==
  /\ fs \in {t \in [CarNames -> UNION {Subtrees(n, StartTagLists) : n \in CarNames}] :
              /\ t[1] \in Subtrees(1, StartTagLists)
              /\ t[1].dir /\ t[1].skins /\ t[1].ui # BadFile
              /\ t[2] \in {Absent, [dir |-> TRUE, skins |-> TRUE, ui |-> NoFile,
                                    file |-> FALSE]}}
  /\ idxOnDisk = TRUE
  /\ carIndex = "open"
  /\ docs = [n \in CarNames |-> IF LoadCar(n, "nil").err = "nil"
                                   THEN <<LoadCar(n, "nil").car.Details>> ELSE NoDoc]
  /\ last = NoCall
  /\ view = NoView(0)
  /\ running = NoneRunning
  /\ order = << >>

NextRace ==
  \E c \in Callers :
     \/ \E id \in CarNames : \E cd \in SaveInputs(id) : StartSaveCarDetails(c, id, cd)
     \/ \E id \in CarNames, t \in TagNames : StartAddTag(c, id, t)
     \/ StepLoad(c)
     \/ StepCreate(c)
     \/ StepEncode(c)
     \/ StepPut(c)

SpecRace == InitRace /\ [][NextRace]_vars

----------------------------------------------------------------------------
\* Properties

Range(seq) == {seq[i] : i \in 1..Len(seq)}

\* The hits of the match-all query over the index as it stands.
MatchAll == HitsFrom("", 1)

\* The names ListCars returns from the disk as it stands.
Listed == NamesOf(ListCars("none").cars)

\* C1: a call of SaveCarDetails, AddTag, DelTag or UpdateCarMetadata that
\* returns without error has put the document it wrote into the index: the
\* index document of the car equals the Details document on disk.
C1_WrittenDetailsAreIndexed ==
  (last.op \in {"SaveCarDetails", "AddTag", "DelTag", "UpdateCarMetadata"}
     /\ last.err = "nil")
  => /\ fs[last.id].ui.kind = "doc"
     /\ docs[last.id] = <<fs[last.id].ui.doc>>

\* C2: after SaveCarDetails(id, details) returns without error, a Search with
\* the empty term succeeds and has id among its hits.
C2_SearchFindsSavedCar ==
  (last.op = "SaveCarDetails" /\ last.err = "nil")
  => LET r == Search("", 0, "none")
     IN r.err = "nil" /\ last.id \in Range(r.hits)

\* What holds after SaveCarDetails(id, details) returns without error: the
\* index holds details under id, so id is among the hits of the match-all
\* query; a Search with the empty term that succeeds returns id with its car,
\* it succeeds exactly when every hit loads, and so it fails (with not-found,
\* or the load error of an earlier hit) when id has no skins directory.
SavedCarIsIndexed ==
  (last.op = "SaveCarDetails" /\ last.err = "nil")
  => LET r == Search("", 0, "none")
         loads == \A n \in Range(MatchAll) : LoadCar(n, "nil").err = "nil"
     IN /\ last.id \in Range(MatchAll)
        /\ docs[last.id] = <<fs[last.id].ui.doc>>
        /\ r.err = "nil" => /\ last.id \in Range(r.hits)
                            /\ \E c \in r.cars : c.Name = last.id
        /\ loads <=> r.err = "nil"
        /\ ~fs[last.id].skins => r.err \in {"ErrNotExist", "ErrParse"}

\* A save that returned without error for a car whose directory has no skins
\* subdirectory, after which Search fails with not-found.
SavedCarWithoutSkins ==
  /\ last.op = "SaveCarDetails" /\ last.err = "nil"
  /\ ~fs[last.id].skins
  /\ Search("", 0, "none").err = "ErrNotExist"

\* What a deletion leaves of a car: no index document, and a directory (if
\* any) LoadCar cannot load.
Removed(n) ==
  /\ docs[n] = NoDoc
  /\ LoadCar(n, "nil").err = "ErrNotExist"

\* A car that cannot be found: LoadCar reports not-found, and the match-all
\* query and Search with the empty term do not return it.
Gone(n) ==
  /\ LoadCar(n, "nil").err = "ErrNotExist"
  /\ n \notin Range(MatchAll)
  /\ n \notin Range(Search("", 0, "none").hits)

\* C3: after DeleteCar(id) returns without error, LoadCar(id) returns
\* not-found and Search with the empty term does not return id; and that stays
\* so through every later call that is not a SaveCarDetails of id.  (A
\* successful DeleteCar leaves the car removed, a removed car stays removed
\* through every such call, and a removed car is one that cannot be found.)
C3_DeletedCarIsGone ==
  /\ [](\A n \in CarNames : Removed(n) => Gone(n))
  /\ [][\A n \in CarNames :
          /\ (last'.op = "DeleteCar" /\ last'.err = "nil" /\ last'.id = n) => Removed(n)'
          /\ (~(last'.op = "SaveCarDetails" /\ last'.id = n) /\ Removed(n))
               => Removed(n)']_vars

\* C3 witness: a DeleteCar that found the car in the listing, removed it and
\* returned without error.
C3_Witness ==
  /\ last.op = "DeleteCar" /\ last.err = "nil" /\ last.found
  /\ Gone(last.id)

\* C4 as claimed: after DeleteCar(id) returns without error nothing of
\* content/cars/id remains and the index holds no document for id.
C4_DeleteLeavesNothing ==
  (last.op = "DeleteCar" /\ last.err = "nil")
  => fs[last.id] = Absent /\ docs[last.id] = NoDoc

\* C4 as amended: a DeleteCar(id) that returns without error leaves no index
\* document for id; it leaves nothing of content/cars/id when ListCars listed
\* id before the call, and leaves the disk as it was when it did not (a
\* directory without skins subdirectory stays).
C4_DeleteRemovesListedCar ==
  [][(last'.op = "DeleteCar" /\ last'.err = "nil")
     => /\ docs'[last'.id] = NoDoc
        /\ IF last'.id \in Listed THEN fs'[last'.id] = Absent ELSE fs' = fs]_vars

\* C4 witness: a DeleteCar that returned without error and left the directory
\* of a car that has no skins subdirectory.
C4_Witness ==
  /\ last.op = "DeleteCar" /\ last.err = "nil" /\ ~last.found
  /\ fs[last.id].dir /\ ~fs[last.id].skins
  /\ docs[last.id] = NoDoc

C6_RebuildCountsCatalog ==
  (last.op = "IndexAllCars" /\ last.err = "nil")
  => Len(MatchAll) = Len(ListCars("none").cars)

\* What holds of IndexAllCars: a run that returns without error, from an
\* index holding no document for a name ListCars does not return, leaves the
\* match-all hit count equal to the number of cars ListCars returns and again
\* no document for an unlisted name, so a second run in succession finds and
\* leaves the same; from an index that holds a document for an unlisted name
\* the run leaves that document and the hit count exceeds the number of cars.
RebuildCountsCatalogFromFresh ==
  [][(last'.op = "IndexAllCars" /\ last'.err = "nil")
     => /\ Listed' \subseteq Range(MatchAll)'
        /\ Range(MatchAll) \subseteq Listed
             => /\ Len(MatchAll)' = Len(ListCars("none").cars)'
                /\ Range(MatchAll)' \subseteq Listed'
        /\ ~(Range(MatchAll) \subseteq Listed)
             => Len(MatchAll)' > Len(ListCars("none").cars)']_vars

\* A rebuild that returned without error and left one document for each of
\* the two listed cars.
RebuildOfTwoCars ==
  /\ last.op = "IndexAllCars" /\ last.err = "nil"
  /\ Len(ListCars("none").cars) = 2
  /\ Len(MatchAll) = 2

\* C7: once CreateOrOpenSearchIndex has returned without error and the index
\* is open, the index holds a document for every car ListCars returns.
C7_OpenedIndexCoversCatalog ==
  (last.op = "CreateOrOpenSearchIndex" /\ last.err = "nil" /\ carIndex = "open")
  => Listed \subseteq Range(MatchAll)

TagCount(tags, name) == Cardinality({i \in 1..Len(tags) : tags[i] = name})

NoDuplicates(tags) == \A i, j \in 1..Len(tags) : tags[i] = tags[j] => i = j

\* C8: every tag list, on disk and in the index, holds each tag at most once;
\* after AddTag(id, t) returns without error the list of id holds t exactly
\* once (also when t was there before), and after DelTag(id, t) it holds no t.
C8_TagsStayUnique ==
  /\ \A n \in CarNames :
        /\ fs[n].ui.kind = "doc" => NoDuplicates(fs[n].ui.doc.Tags)
        /\ docs[n] # NoDoc => NoDuplicates(docs[n][1].Tags)
  /\ (last.op = "AddTag" /\ last.err = "nil")
       => TagCount(fs[last.id].ui.doc.Tags, last.arg) = 1
  /\ (last.op = "DelTag" /\ last.err = "nil")
       => TagCount(fs[last.id].ui.doc.Tags, last.arg) = 0

\* C8 witness: AddTag of a tag the car already had, next to another tag.
C8_Witness ==
  /\ last.op = "AddTag" /\ last.err = "nil" /\ last.found
  /\ Len(fs[last.id].ui.doc.Tags) = 2
  /\ TagCount(fs[last.id].ui.doc.Tags, last.arg) = 1

\* C9 as claimed: DelTag(id, t) on a loadable car whose tags do not hold t,
\* returning without error, leaves the subtree of id on disk and the index
\* document of id as they were.
C9_DelTagOfMissingTagChangesNothing ==
  [][\A id \in CarNames :
       LET l == LoadCar(id, "nil")
       IN (last'.op = "DelTag" /\ last'.id = id /\ last'.err = "nil"
             /\ l.err = "nil" /\ ~HasTag(l.car.Details, last'.arg))
          => fs'[id] = fs[id] /\ docs'[id] = docs[id]]_vars

\* C9 as amended: DelTag(id, t) on a loadable car whose tags do not hold t
\* raises no error for the missing tag (only a failed write or index put is
\* returned) and, returning without error, leaves the record LoadCar yields
\* unchanged; it has written that record's Details to ui_car.json (creating
\* the file when there was none) and put it in the index.
C9_DelTagOfMissingTagKeepsRecord ==
  [][\A id \in CarNames :
       LET l == LoadCar(id, "nil")
       IN (last'.op = "DelTag" /\ last'.id = id
             /\ l.err = "nil" /\ ~HasTag(l.car.Details, last'.arg))
          => /\ last'.err \in {"nil", "ErrIO", "ErrIndex"}
             /\ last'.err = "nil"
                  => /\ LoadCar(id, "nil")' = l
                     /\ fs'[id].ui = File(l.car.Details)
                     /\ docs'[id] = <<l.car.Details>>]_vars

\* C9 witness: DelTag of a tag the car did not have, the car having another.
C9_Witness ==
  /\ last.op = "DelTag" /\ last.err = "nil" /\ ~last.found
  /\ Len(fs[last.id].ui.doc.Tags) = 1

\* C10: for T hits and page p, list queries from offset p * 50, reports
\* total T and numPages = ceil(T / 50) (the least n with n * 50 >= T), and
\* yields exactly the hits at positions p * 50 .. min(T, (p + 1) * 50) - 1.
C10_PagesCoverHits ==
  view.op = "list"
  => LET T == view.T
         p == view.CurrentPage
         lo == p * searchPageSize
         end == IF T < (p + 1) * searchPageSize THEN T ELSE (p + 1) * searchPageSize
         n == IF end > lo THEN end - lo ELSE 0
     IN /\ view.From = lo
        /\ view.Total = T
        /\ view.NumPages >= 0
        /\ view.NumPages * searchPageSize >= T
        /\ (view.NumPages - 1) * searchPageSize < T
        /\ Len(view.Hits) = n
        /\ \A i \in 1..n : view.Hits[i] = lo + i - 1

\* C10 witness: 125 hits, page 2: three pages, the hits 100 to 124.
C10_Witness ==
  /\ view.op = "list" /\ view.T = 125 /\ view.CurrentPage = 2
  /\ view.NumPages = 3
  /\ Len(view.Hits) = 25 /\ view.Hits[1] = 100 /\ view.Hits[25] = 124

\* 10 to the power k.
RECURSIVE Pow10(_)
Pow10(k) == IF k = 0 THEN 1 ELSE 10 * Pow10(k - 1)

\* The sum of the digits of str from position i to j, each at its decimal
\* weight: the base-10 integer the run str[i..j] writes.
RECURSIVE RunValue(_, _, _)
RunValue(str, i, j) ==
  IF i > j THEN 0
  ELSE DigitValue(str[i]) * Pow10(j - i) + RunValue(str, i + 1, j)

\* str[i..j] is the first maximal digit run of str.
IsFirstRun(str, i, j) ==
  /\ i <= j
  /\ \A k \in i..j : str[k] \in Digits
  /\ \A k \in 1..(i - 1) : str[k] \notin Digits
  /\ j = Len(str) \/ str[j + 1] \notin Digits

\* The integer the claim gives a string.
FirstRunValue(str) ==
  IF \E k \in 1..Len(str) : str[k] \in Digits
  THEN LET i == CHOOSE i \in 1..Len(str) : \E j \in i..Len(str) : IsFirstRun(str, i, j)
           j == CHOOSE j \in i..Len(str) : IsFirstRun(str, i, j)
       IN RunValue(str, i, j)
  ELSE 0

\* C11: toNumber(s) is the first maximal digit run of s read as a base-10
\* integer, and 0 when s has no digit ("450 bhp" gives 450, "N/A" gives 0,
\* "12.5s" gives 12); each field of CarSpecs.Numeric() is that integer of the
\* field of the same name.
C11_ToNumberReadsFirstRun ==
  /\ last.op = "toNumber" => last.n = FirstRunValue(last.str)
  /\ (last.op = "toNumber" /\ last.str = <<"4", "5", "0", " ", "b", "h", "p">>)
       => last.n = 450
  /\ (last.op = "toNumber" /\ last.str = <<"N", "/", "A">>) => last.n = 0
  /\ (last.op = "toNumber" /\ last.str = <<"1", "2", ".", "5", "s">>) => last.n = 12
  /\ last.op = "Numeric"
       => /\ last.numeric.Acceleration = FirstRunValue(last.cs.Acceleration)
          /\ last.numeric.BHP = FirstRunValue(last.cs.BHP)
          /\ last.numeric.PWRatio = FirstRunValue(last.cs.PWRatio)
          /\ last.numeric.TopSpeed = FirstRunValue(last.cs.TopSpeed)
          /\ last.numeric.Torque = FirstRunValue(last.cs.Torque)
          /\ last.numeric.Weight = FirstRunValue(last.cs.Weight)

\* C11 witness: "12.5s" gives 12.
C11_Witness ==
  /\ last.op = "toNumber"
  /\ last.str = <<"1", "2", ".", "5", "s">>
  /\ last.n = 12

\* The record LoadCar makes up for a car without ui_car.json.
FakeCar(name, tyres) ==
  [Name |-> name, Tyres |-> TyresOf(tyres, name),
   Details |-> [Name |-> prettifyName(name), Tags |-> << >>, Notes |-> "",
                SpecsFull |-> ZeroSpecs, Specs |-> ZeroNumeric]]

\* C12 as claimed: for every name whose directory exists and holds no
\* ui_car.json, LoadCar returns without error a record whose Details carry
\* the prettified name and nothing else.
C12_MissingDetailsAreNoError ==
  (last.op = "LoadCar" /\ fs[last.id].dir /\ fs[last.id].ui = NoFile)
  => last.err = "nil" /\ last.cars = {FakeCar(last.id, last.arg)}

\* C12 as amended: for every name whose directory and skins directory exist
\* and which has no ui_car.json, LoadCar returns without error a record whose
\* Details carry the prettified name and nothing else; when the skins
\* directory is missing LoadCar returns not-found, with or without a
\* ui_car.json.
C12_MissingDetailsWithSkinsAreNoError ==
  /\ (last.op = "LoadCar" /\ fs[last.id].dir /\ fs[last.id].skins
        /\ fs[last.id].ui = NoFile)
      => last.err = "nil" /\ last.cars = {FakeCar(last.id, last.arg)}
  /\ (last.op = "LoadCar" /\ fs[last.id].dir /\ ~fs[last.id].skins)
      => last.err = "ErrNotExist" /\ last.cars = {}

\* C12 witness: LoadCar of a car with skins and no ui_car.json.
C12_Witness ==
  /\ last.op = "LoadCar" /\ last.err = "nil"
  /\ fs[last.id].dir /\ fs[last.id].skins /\ fs[last.id].ui = NoFile
  /\ last.cars = {FakeCar(last.id, last.arg)}

\* The names whose entry is a directory with a readable skins directory.
WithSkins == {n \in CarNames : fs[n].dir /\ fs[n].skins}

\* C13: a ListCars that returns without error returns exactly one car for
\* each directory whose skins directory can be read, as LoadCar gives it;
\* regular files and directories without skins do not fail it; a load error
\* other than not-found (here a ui_car.json that does not decode) makes it
\* return that error and no cars, as does a failure to read content/cars or
\* the tyres.
C13_ListCarsSkipsOrAborts ==
  last.op = "ListCars"
  => /\ last.err = "nil"
          => /\ Range(last.hits) = WithSkins
             /\ Len(last.hits) = Cardinality(WithSkins)
             /\ last.cars = {LoadCar(n, "registry").car : n \in WithSkins}
     /\ last.err # "nil" => last.hits = << >> /\ last.cars = {}
     /\ last.arg = "list" => last.err = "ErrIO"
     /\ (last.arg = "none" /\ \E n \in WithSkins : fs[n].ui = BadFile)
          => last.err = "ErrParse"
     /\ (last.arg = "none" /\ \A n \in WithSkins : fs[n].ui # BadFile)
          => last.err = "nil"

\* C13 witness: a listing that returned one car and passed over a regular
\* file.
C13_Witness ==
  /\ last.op = "ListCars" /\ last.err = "nil"
  /\ fs[1] = PlainFile
  /\ last.hits = <<2>>

\* C14: when the write of SaveCarDetails succeeds and the index put then
\* fails, the call returns the index error, ui_car.json holds the document
\* handed to the call, and the index is as it was before the call.
C14_FailedPutLeavesWriteAndIndex ==
  [][\A id \in CarNames :
       (last'.op = "SaveCarDetails" /\ last'.id = id
          /\ last'.calls = <<"Save", "IndexCar">> /\ last'.err # "nil")
       => /\ last'.err = "ErrIndex"
          /\ fs'[id].ui.kind = "doc"
          /\ fs'[id].ui.doc.Notes = last'.arg
          /\ fs'[id].ui.doc \in SaveInputs(id)
          /\ \A n \in CarNames \ {id} : fs'[n] = fs[n]
          /\ docs' = docs]_vars

\* C14 witness: a SaveCarDetails whose index put failed, leaving on disk a
\* document that differs from the one in the index.
C14_Witness ==
  /\ last.op = "SaveCarDetails" /\ last.err = "ErrIndex"
  /\ fs[last.id].ui.kind = "doc" /\ fs[last.id].ui.doc.Notes = "n"
  /\ docs[last.id] # NoDoc /\ docs[last.id][1].Notes = ""

\* C15: a Search step, whether it returns results, an error, or is ended by
\* its context, leaves the index documents and the catalog on disk (and the
\* index handle) as they were.
C15_SearchChangesNothing ==
  [][last'.op = "Search"
     => /\ fs' = fs /\ docs' = docs /\ idxOnDisk' = idxOnDisk /\ carIndex' = carIndex
        /\ last'.err \in {"nil", "ErrIndex", "ErrCancelled", "ErrNotExist", "ErrParse", "ErrIO"}]_vars

\* C15 witness: a Search ended by its context, over an index that holds a
\* document.
C15_Witness ==
  /\ last.op = "Search" /\ last.err = "ErrCancelled"
  /\ \E n \in CarNames : docs[n] # NoDoc

\* C16: after IndexAllCars returns without error, whatever the index held,
\* the index holds for every car ListCars returns the Details LoadCar yields
\* from disk.
C16_RebuildIndexesEveryListedCar ==
  [][(last'.op = "IndexAllCars" /\ last'.err = "nil")
     => /\ fs' = fs
        /\ \A n \in Listed' :
              /\ LoadCar(n, "registry")'.err = "nil"
              /\ docs'[n] = <<LoadCar(n, "registry")'.car.Details>>]_vars

\* C16 witness: a rebuild that returned without error and left in the index
\* the notes an UpdateCarMetadata had written to disk only.
C16_Witness ==
  /\ last.op = "IndexAllCars" /\ last.err = "nil"
  /\ \E n \in Listed : fs[n].ui.kind = "doc" /\ fs[n].ui.doc.Notes = "n"
                         /\ docs[n] = <<LoadCar(n, "registry").car.Details>>

\* The hits of the page of the Search last made, from the index as it stands.
PageHits == PageOf(HitsFrom(last.arg, 1), searchPageSize, last.id)

\* C20: a Search that returns without error returns a car for exactly the
\* hits of its page, each the record LoadCar gives with no tyres; if a hit of
\* the page does not load Search returns a load error and no results.
C20_SearchIsAllOrNothing ==
  (last.op = "Search" /\ last.err \notin {"ErrIndex", "ErrCancelled"})
  => /\ last.err = "nil"
          => /\ last.hits = PageHits
             /\ {c.Name : c \in last.cars} = Range(PageHits)
             /\ \A c \in last.cars : LoadCar(c.Name, "nil") = [err |-> "nil", car |-> c]
             /\ \A c \in last.cars : c.Tyres = NoTyres
     /\ (\E n \in Range(PageHits) : LoadCar(n, "nil").err # "nil")
          => /\ \E n \in Range(PageHits) :
                   LoadCar(n, "nil").err # "nil" /\ last.err = LoadCar(n, "nil").err
             /\ last.cars = {} /\ last.hits = << >> /\ last.total = 0
     /\ (\A n \in Range(PageHits) : LoadCar(n, "nil").err = "nil") => last.err = "nil"

\* C20 witness: a Search that failed with not-found because one of its two
\* hits has no directory on disk, the other being loadable.
C20_Witness ==
  /\ last.op = "Search" /\ last.err = "ErrNotExist"
  /\ Len(PageHits) = 2
  /\ \E n \in Range(PageHits) : LoadCar(n, "nil").err = "nil"
  /\ \E n \in Range(PageHits) : fs[n] = Absent
  /\ last.cars = {}

\* C17: once the manager has started on a path with no index, after any
\* calls of SaveCarDetails, AddTag, DelTag, UpdateCarMetadata and DeleteCar,
\* none failing in its I/O, the names with an index document are the names
\* ListCars returns.
C17_IndexedAreListed ==
  carIndex = "open" => Range(MatchAll) = Listed

\* What holds of those calls: every listed car has an index document, and a
\* call other than a SaveCarDetails of a name LoadCar cannot load keeps the
\* names with a document equal to the names listed.
IndexedAreListedButForSaves ==
  /\ [](carIndex = "open" => Listed \subseteq Range(MatchAll))
  /\ [][\A id \in CarNames :
          (carIndex = "open" /\ Range(MatchAll) = Listed /\ last'.id = id
             /\ ~(last'.op = "SaveCarDetails" /\ LoadCar(id, "nil").err # "nil"))
          => Range(MatchAll)' = Listed']_vars

\* The place of caller c's step in the order of steps, and the other caller.
Pos(c, step) == CHOOSE i \in 1..Len(order) : order[i] = <<c, step>>

Other(c) == CHOOSE d \in Callers : d # c

\* The caller whose step of that kind came last.
LastTo(step) == CHOOSE c \in Callers : Pos(Other(c), step) < Pos(c, step)

\* Both callers ran op on the same car and both calls returned without error.
BothReturned(op) ==
  /\ \A c \in Callers : running[c].op = op /\ running[c].pc = "done"
                           /\ running[c].err = "nil"
  /\ running[1].id = running[2].id

\* The write of the caller that wrote last began before the other's write
\* and ended after it.
WritesOverlap ==
  Pos(LastTo("encode"), "create") < Pos(Other(LastTo("encode")), "encode")

\* C18 as claimed: after two concurrent SaveCarDetails of the same car with
\* different documents, both returning without error, ui_car.json holds the
\* document of the call that wrote last and the index document equals it.
C18_IndexFollowsLastWrite ==
  (BothReturned("SaveCarDetails") /\ running[1].car.Details # running[2].car.Details)
  => LET id == running[1].id
         w == LastTo("encode")
     IN /\ fs[id].ui = File(running[w].car.Details)
        /\ docs[id] = <<fs[id].ui.doc>>

\* C18 as amended: after two such calls the index document is the document
\* of the call whose put came last; ui_car.json holds the document of the
\* call whose write came last, or, when the other's write fell between that
\* call's Create and its Encode, possibly a mix that does not decode; the
\* index document equals the document on disk when the same call wrote last
\* and put last, and differs from it when one wrote last and the other put
\* last.
C18_IndexFollowsLastPut ==
  (BothReturned("SaveCarDetails") /\ running[1].car.Details # running[2].car.Details)
  => LET id == running[1].id
         w == LastTo("encode")
         p == LastTo("put")
     IN /\ docs[id] = <<running[p].car.Details>>
        /\ ~WritesOverlap => fs[id].ui = File(running[w].car.Details)
        /\ WritesOverlap => fs[id].ui \in {File(running[w].car.Details), BadFile}
        /\ (p = w /\ fs[id].ui.kind = "doc") => docs[id] = <<fs[id].ui.doc>>
        /\ (p # w /\ fs[id].ui.kind = "doc") => docs[id] # <<fs[id].ui.doc>>

\* C18 witness: two such calls, one writing last and the other putting last,
\* the writes not overlapping: the index holds the document that is not on
\* disk.
C18_Witness ==
  /\ BothReturned("SaveCarDetails")
  /\ running[1].car.Details # running[2].car.Details
  /\ LastTo("put") # LastTo("encode")
  /\ ~WritesOverlap
  /\ docs[running[1].id] # <<fs[running[1].id].ui.doc>>

\* C19 as claimed: after two concurrent AddTag of the same car with different
\* tags, both returning without error, the tag list on disk holds both tags.
C19_BothTagsStored ==
  (BothReturned("AddTag") /\ running[1].tag # running[2].tag)
  => LET ui == fs[running[1].id].ui
     IN /\ ui.kind = "doc"
        /\ \A c \in Callers : HasTag(ui.doc, running[c].tag)

\* C19 as amended: after two such calls the tag list on disk, where the file
\* decodes, holds the tag of the call whose write came last, and holds the
\* other call's tag exactly when the call that wrote last loaded the car
\* after the other's write (the car having had neither tag); the file is the
\* record the last writer loaded with its tag added, or a mix that does not
\* decode when the writes overlapped; the index holds the record of the call
\* whose put came last.
C19_LastWriterDecidesTags ==
  (BothReturned("AddTag") /\ running[1].tag # running[2].tag)
  => LET id == running[1].id
         w == LastTo("encode")
         o == Other(w)
         ui == fs[id].ui
     IN /\ ui \in {File(running[w].car.Details)}
                    \cup (IF WritesOverlap THEN {BadFile} ELSE {})
        /\ ui.kind = "doc"
             => /\ HasTag(ui.doc, running[w].tag)
                /\ HasTag(ui.doc, running[o].tag) <=> Pos(o, "encode") < Pos(w, "load")
        /\ docs[id] = <<running[LastTo("put")].car.Details>>

\* C19 witness: two such calls that both loaded before either wrote: one tag
\* is on disk, the other is lost.
C19_Witness ==
  /\ BothReturned("AddTag") /\ running[1].tag # running[2].tag
  /\ fs[running[1].id].ui.kind = "doc"
  /\ Len(fs[running[1].id].ui.doc.Tags) = 1

====
